---- MODULE Spec2Model ----
(***************************************************************************)
(* Request customisation in three testcontainers-go modules:               *)
(*   - influxdb: RunContainer, its options and the readiness-strategy      *)
(*     selection that precedes the launch call;                            *)
(*   - surrealdb: RunContainer and its options;                            *)
(*   - neo4j: the configuration options (addSetting, formatNeo4jConfig).   *)
(* Strings the code inspects character by character (image references,     *)
(* file paths, neo4j setting keys) are sequences of one-character strings; *)
(* strings the code only stores or compares as a whole are TLA+ strings.   *)
(***************************************************************************)
EXTENDS Integers, Sequences, FiniteSets, TLC

VARIABLES
    pc,        \* influxdb RunContainer: "customize", "launch", "done", "panic"
    req,       \* influxdb: the request being built
    nOpts,     \* influxdb: number of options applied so far
    pre,       \* influxdb: the request as it was when the selector last started
    writes,    \* influxdb: assignments to req.WaitingFor made by the last selector run
    runs,      \* influxdb: number of selector runs on this request
    returned,    \* influxdb: what RunContainer returned ("none" until it returns)
    spc,       \* surrealdb RunContainer: "customize", "done"
    senv,      \* surrealdb: req.Env
    sapplied,  \* surrealdb: the options applied so far, in order
    sresult,   \* surrealdb: what RunContainer returned
    nenv,      \* neo4j: req.Env
    nlogger,   \* neo4j: whether req.Logger is set
    nlogs,     \* neo4j: number of lines printed to req.Logger
    nstatus,   \* neo4j: outcome of the last option: "ok", "error", "panic"
    ncalls,    \* neo4j: the addSetting calls of the last option, in order
    nprev,     \* neo4j: req.Env as it was before the last option
    nlast,     \* neo4j: name of the last option applied
    nOptsNeo   \* neo4j: number of options applied so far

influxVars  == <<pc, req, nOpts, pre, writes, runs, returned>>
surrealVars == <<spc, senv, sapplied, sresult>>
neoVars     == <<nenv, nlogger, nlogs, nstatus, ncalls, nprev, nlast, nOptsNeo>>
vars        == <<influxVars, surrealVars, neoVars>>

\* ------------------------------------------------------------------ bounds
MaxOpts    == 2   \* options handed to influxdb RunContainer
MaxTagLen  == 2   \* length of the generated image tags
MaxRuns    == 2   \* selector runs on one request (SpecReapply only)
MaxSurOpts == 3   \* options handed to surrealdb RunContainer
MaxNeoOpts == 2   \* neo4j options applied to one request
MaxKeyLen  == 4   \* length of the setting keys formatNeo4jConfig is probed with

\* ------------------------------------------------------------ string helpers
\* strings.HasSuffix
HasSuffix(s, suffix) ==
    /\ Len(s) >= Len(suffix)
    /\ SubSeq(s, Len(s) - Len(suffix) + 1, Len(s)) = suffix

\* mutant of LastIndex: strings.Index, the first occurrence
FirstIndex(s, c) ==
    LET hits == {i \in 1..Len(s) : s[i] = c}
    IN  IF hits = {} THEN -1
        ELSE (CHOOSE i \in hits : \A j \in hits : i <= j) - 1

\* strings.LastIndex for a one-character separator: 0-based index, -1 if absent
LastIndex(s, c) ==
    LET hits == {i \in 1..Len(s) : s[i] = c}
    IN  IF hits = {} THEN -1
        ELSE (CHOOSE i \in hits : \A j \in hits : j <= i) - 1

\* all sequences over alphabet a of length 0..n
RECURSIVE SeqsUpTo(_, _)
SeqsUpTo(a, n) ==
    IF n = 0 THEN {<<>>}
    ELSE LET shorter == SeqsUpTo(a, n - 1)
         IN  shorter \cup {Append(s, c) : s \in shorter, c \in a}

\* the segments of s between occurrences of "/"
RECURSIVE SplitSlash(_)
SplitSlash(s) ==
    LET hits == {i \in 1..Len(s) : s[i] = "/"}
    IN  IF hits = {} THEN <<s>>
        ELSE LET i == CHOOSE k \in hits : \A j \in hits : k <= j
             IN  <<SubSeq(s, 1, i - 1)>> \o SplitSlash(SubSeq(s, i + 1, Len(s)))

\* path.Clean's element processing: drop "" and ".", resolve ".."
RECURSIVE CleanSegs(_, _, _)
CleanSegs(segs, stack, rooted) ==
    IF segs = <<>> THEN stack
    ELSE LET h == Head(segs)
             t == Tail(segs)
         IN  IF h = <<>> \/ h = <<".">> THEN CleanSegs(t, stack, rooted)
             ELSE IF h = <<".", ".">>
                  THEN IF stack # <<>> /\ stack[Len(stack)] # <<".", ".">>
                       THEN CleanSegs(t, SubSeq(stack, 1, Len(stack) - 1), rooted)
                       ELSE IF rooted THEN CleanSegs(t, stack, rooted)
                            ELSE CleanSegs(t, Append(stack, h), rooted)
                  ELSE CleanSegs(t, Append(stack, h), rooted)

RECURSIVE JoinSlash(_)
JoinSlash(segs) ==
    IF segs = <<>> THEN <<>>
    ELSE IF Len(segs) = 1 THEN segs[1]
         ELSE segs[1] \o <<"/">> \o JoinSlash(Tail(segs))

\* path.Clean
pathClean(p) ==
    LET rooted == p # <<>> /\ p[1] = "/"
        out == (IF rooted THEN <<"/">> ELSE <<>>)
               \o JoinSlash(CleanSegs(SplitSlash(p), <<>>, rooted))
    IN  IF out = <<>> THEN <<".">> ELSE out

\* path.Join of two elements: empty elements are ignored, the rest is cleaned
pathJoin(a, b) ==
    IF a = <<>> /\ b = <<>> THEN <<>>
    ELSE IF a = <<>> THEN pathClean(b)
    ELSE IF b = <<>> THEN pathClean(a)
    ELSE pathClean(a \o <<"/">> \o b)

\* --------------------------------------------------------- waiting strategies
\* wait.ForListeningPort
ForListeningPort(port) ==
    [kind |-> "ForListeningPort", arg |-> port, regexp |-> FALSE, strategies |-> <<>>]

\* wait.ForLog
ForLog(text) ==
    [kind |-> "ForLog", arg |-> text, regexp |-> FALSE, strategies |-> <<>>]

\* (*LogStrategy).AsRegexp
AsRegexp(s) == [s EXCEPT !.regexp = TRUE]

\* wait.ForAll
ForAll(ss) ==
    [kind |-> "ForAll", arg |-> "", regexp |-> FALSE, strategies |-> ss]

\* ------------------------------------------------------------------ influxdb
defaultImage == <<"i","n","f","l","u","x","d","b",":","1",".","8">>

initDbDir == <<"d","o","c","k","e","r","-","e","n","t","r","y","p","o","i","n","t",
               "-","i","n","i","t","d","b",".","d">>

confPath == <<"/","e","t","c","/","i","n","f","l","u","x","d","b","/",
              "i","n","f","l","u","x","d","b",".","c","o","n","f">>

latest == <<"l","a","t","e","s","t">>

FileMode == 493   \* 0o755

InitProcessLog == ForLog("influxdb init process in progress...")
ShutdownLog    == ForLog("Server shutdown completed")
OpenedShardLog == ForLog("Opened shard")
ListeningRegexp ==
    AsRegexp(ForLog("Listening log_id=[0-9a-zA-Z_~]+ service=tcp-listener transport=http"))
ListeningForSignals == ForLog("Listening for signals")

\* the request RunContainer constructs before any option is applied
DefaultRequest ==
    [Image |-> defaultImage,
     Env |-> [k \in {"INFLUXDB_BIND_ADDRESS", "INFLUXDB_HTTP_BIND_ADDRESS",
                     "INFLUXDB_REPORTING_DISABLED", "INFLUXDB_MONITOR_STORE_ENABLED",
                     "INFLUXDB_HTTP_HTTPS_ENABLED", "INFLUXDB_HTTP_AUTH_ENABLED"} |->
                CASE k = "INFLUXDB_BIND_ADDRESS" -> ":8088"
                  [] k = "INFLUXDB_HTTP_BIND_ADDRESS" -> ":8086"
                  [] k = "INFLUXDB_REPORTING_DISABLED" -> "true"
                  [] OTHER -> "false"],
     Files |-> <<>>,
     WaitingFor |-> ForListeningPort("8086/tcp")]

\* req.Env[k] = v
SetEnv(env, k, v) == [x \in DOMAIN env \cup {k} |-> IF x = k THEN v ELSE env[x]]

\* mutant of IsInitDbMount: the host path compared for equality
IsInitDbMountExact(f) ==
    f.ContainerFilePath = <<"/">> /\ f.HostFilePath = initDbDir

\* the condition of the file scan
IsInitDbMount(f) ==
    f.ContainerFilePath = <<"/">> /\ HasSuffix(f.HostFilePath, initDbDir)

\* mutant of InitDbStrategy: a four-element conjunction the request already
\* carries is kept instead of wrapped
InitDbStrategyFlat(wf) ==
    IF wf.kind = "ForAll" /\ Len(wf.strategies) = 4
    THEN wf
    ELSE ForAll(<<wf, InitProcessLog, ShutdownLog, OpenedShardLog>>)

\* the init-script conjunction built around the strategy the request carries
InitDbStrategy(wf) ==
    ForAll(<<wf, InitProcessLog, ShutdownLog, OpenedShardLog>>)

\* mutant of ScanFiles: the loop without its break
RECURSIVE ScanFilesNoBreak(_, _, _)
ScanFilesNoBreak(files, i, st) ==
    IF i > Len(files) THEN st
    ELSE IF IsInitDbMount(files[i])
         THEN ScanFilesNoBreak(files, i + 1,
                  [st EXCEPT !.req.WaitingFor = InitDbStrategy(st.req.WaitingFor),
                             !.hasInitDb = TRUE,
                             !.writes = st.writes + 1])
         ELSE ScanFilesNoBreak(files, i + 1, st)

\* the file scan with its break; st is [req, hasInitDb, writes, panicked], where
\* writes counts the assignments to req.WaitingFor
RECURSIVE ScanFiles(_, _, _)
ScanFiles(files, i, st) ==
    IF i > Len(files) THEN st
    ELSE IF IsInitDbMount(files[i])
         THEN [st EXCEPT !.req.WaitingFor = InitDbStrategy(st.req.WaitingFor),
                         !.hasInitDb = TRUE,
                         !.writes = st.writes + 1]
         ELSE ScanFiles(files, i + 1, st)

\* mutant of TagBranch: a '2' anywhere in the tag selects the regular expression
TagBranchContains(st) ==
    LET image == st.req.Image
        lastIndex == LastIndex(image, ":")
        tag == SubSeq(image, lastIndex + 2, Len(image))
    IN  IF lastIndex # -1
        THEN IF tag = latest \/ \E i \in 1..Len(tag) : tag[i] = "2"
             THEN [st EXCEPT !.req.WaitingFor = ListeningRegexp,
                             !.writes = st.writes + 1]
             ELSE IF tag = <<>> THEN [st EXCEPT !.panicked = TRUE] ELSE st
        ELSE [st EXCEPT !.req.WaitingFor = ListeningForSignals,
                        !.writes = st.writes + 1]

\* mutant of TagBranch: no fallback for an image reference without ':'
TagBranchNoFallback(st) ==
    LET image == st.req.Image
        lastIndex == LastIndex(image, ":")
        tag == SubSeq(image, lastIndex + 2, Len(image))
    IN  IF lastIndex # -1
        THEN IF tag = latest
             THEN [st EXCEPT !.req.WaitingFor = ListeningRegexp,
                             !.writes = st.writes + 1]
             ELSE IF tag = <<>>
                  THEN [st EXCEPT !.panicked = TRUE]
                  ELSE IF tag[1] = "2"
                       THEN [st EXCEPT !.req.WaitingFor = ListeningRegexp,
                                       !.writes = st.writes + 1]
                       ELSE st
        ELSE st

\* the branch on the image tag, taken when no init-script mount was found
TagBranch(st) ==
    LET image == st.req.Image
        lastIndex == LastIndex(image, ":")
        tag == SubSeq(image, lastIndex + 2, Len(image))
    IN  IF lastIndex # -1
        THEN IF tag = latest
             THEN [st EXCEPT !.req.WaitingFor = ListeningRegexp,
                             !.writes = st.writes + 1]
             ELSE IF tag = <<>>
                  THEN [st EXCEPT !.panicked = TRUE]   \* tag[0]: index out of range
                  ELSE IF tag[1] = "2"
                       THEN [st EXCEPT !.req.WaitingFor = ListeningRegexp,
                                       !.writes = st.writes + 1]
                       ELSE st
        ELSE [st EXCEPT !.req.WaitingFor = ListeningForSignals,
                        !.writes = st.writes + 1]

\* mutant of Selector: the init-script mount found by the scan is taken off the
\* file list
SelectorConsumesMount(r) ==
    LET st0 == [req |-> r, hasInitDb |-> FALSE, writes |-> 0, panicked |-> FALSE]
        st1 == ScanFiles(r.Files, 1, st0)
    IN  IF ~st1.hasInitDb THEN TagBranch(st1)
        ELSE [st1 EXCEPT !.req.Files =
                  SelectSeq(r.Files, LAMBDA f : ~IsInitDbMount(f))]

\* the readiness selection of RunContainer, from the end of the option loop to
\* the launch call
Selector(r) ==
    LET st0 == [req |-> r, hasInitDb |-> FALSE, writes |-> 0, panicked |-> FALSE]
        st1 == ScanFiles(r.Files, 1, st0)
    IN  IF ~st1.hasInitDb THEN TagBranch(st1) ELSE st1

\* ------------------------------------------------------------ influxdb inputs
influxdbName == <<"i","n","f","l","u","x","d","b">>
TagAlphabet  == {"1", "2", "."}
Tags         == SeqsUpTo(TagAlphabet, MaxTagLen) \cup {latest}
Images ==
    {influxdbName \o <<":">> \o t : t \in Tags}
    \cup {influxdbName,
          <<"r",":","5","/">> \o influxdbName,
          <<"r",":","5","/">> \o influxdbName \o <<":","2",".","7",".","1">>}
Usernames == {"admin"}
Passwords == {"secret"}
Databases == {"metrics"}
SrcPaths  == {<<>>, <<"t">>, <<"t","/">>, <<"/","t","/",".",".","/","."  >>}
ConfigFiles == {<<"c">>, initDbDir}
CallerStrategies == {ForLog("ready"), ForAll(<<ForLog("ready")>>)}
CallerFiles ==
    {[HostFilePath |-> <<"x">> \o initDbDir, ContainerFilePath |-> <<"/">>,
      FileMode |-> FileMode],
     [HostFilePath |-> initDbDir \o <<"/">>, ContainerFilePath |-> <<"/">>,
      FileMode |-> FileMode]}

\* ----------------------------------------------------------- influxdb actions
InfluxInit ==
    /\ pc = "customize"
    /\ req = DefaultRequest
    /\ nOpts = 0
    /\ pre = DefaultRequest
    /\ writes = 0
    /\ runs = 0
    /\ returned = "none"

Customizing == pc = "customize" /\ nOpts < MaxOpts

ApplyOption(r) ==
    /\ Customizing
    /\ req' = r
    /\ nOpts' = nOpts + 1
    /\ UNCHANGED <<pc, pre, writes, runs, returned>>

WithUsername ==
    \E u \in Usernames :
        ApplyOption([req EXCEPT !.Env = SetEnv(req.Env, "INFLUXDB_USER", u)])

WithPassword ==
    \E p \in Passwords :
        ApplyOption([req EXCEPT !.Env = SetEnv(req.Env, "INFLUXDB_PASSWORD", p)])

WithDatabase ==
    \E d \in Databases :
        ApplyOption([req EXCEPT !.Env = SetEnv(req.Env, "INFLUXDB_DATABASE", d)])

WithConfigFile ==
    \E configFile \in ConfigFiles :
        ApplyOption([req EXCEPT !.Files =
            Append(req.Files, [HostFilePath |-> configFile,
                               ContainerFilePath |-> confPath,
                               FileMode |-> FileMode])])

WithInitDb ==
    \E srcPath \in SrcPaths :
        ApplyOption([req EXCEPT !.Files =
            Append(req.Files, [HostFilePath |-> pathJoin(srcPath, initDbDir),
                               ContainerFilePath |-> <<"/">>,
                               FileMode |-> FileMode])])

\* a caller's own customizer, applied by the same loop: it may set the image,
\* the waiting strategy or add a file
CustomizeImage ==
    \E img \in Images : ApplyOption([req EXCEPT !.Image = img])

CustomizeWaitingFor ==
    \E s \in CallerStrategies : ApplyOption([req EXCEPT !.WaitingFor = s])

CustomizeFiles ==
    \E f \in CallerFiles : ApplyOption([req EXCEPT !.Files = Append(req.Files, f)])

\* lines 44-74: the selector runs once the option loop has ended
SelectReadiness ==
    /\ pc = "customize"
    /\ LET st == Selector(req)
       IN  /\ pre' = req
           /\ req' = st.req
           /\ writes' = st.writes
           /\ pc' = IF st.panicked THEN "panic" ELSE "launch"
    /\ runs' = runs + 1
    /\ UNCHANGED <<nOpts, returned>>

\* testcontainers.New and the return
Launch ==
    /\ pc = "launch"
    /\ pc' = "done"
    /\ \E r \in {"container", "error"} : returned' = r
    /\ UNCHANGED <<req, nOpts, pre, writes, runs>>

\* the selector applied again to the request it has already been applied to
SelectAgain ==
    /\ pc = "launch"
    /\ runs < MaxRuns
    /\ LET st == Selector(req)
       IN  /\ pre' = req
           /\ req' = st.req
           /\ writes' = st.writes
           /\ pc' = IF st.panicked THEN "panic" ELSE "launch"
    /\ runs' = runs + 1
    /\ UNCHANGED <<nOpts, returned>>

\* ----------------------------------------------------------------- surrealdb
\* the environment RunContainer constructs before any option is applied
SurrealDefaultEnv ==
    [k \in {"SURREAL_USER", "SURREAL_PASS", "SURREAL_AUTH", "SURREAL_STRICT",
            "SURREAL_CAPS_ALLOW_ALL", "SURREAL_PATH"} |->
        CASE k \in {"SURREAL_USER", "SURREAL_PASS"} -> "root"
          [] k = "SURREAL_PATH" -> "memory"
          [] OTHER -> "false"]

SurrealUsernames == {"root", "admin"}
SurrealPasswords == {"root", "secret"}

SurrealInit ==
    /\ spc = "customize"
    /\ senv = SurrealDefaultEnv
    /\ sapplied = <<>>
    /\ sresult = "none"

\* one iteration of the option loop; no option of the module returns an error
SurrealApply(name, k, v) ==
    /\ spc = "customize"
    /\ Len(sapplied) < MaxSurOpts
    /\ senv' = SetEnv(senv, k, v)
    /\ sapplied' = Append(sapplied, name)
    /\ UNCHANGED <<spc, sresult>>

SurrealWithUsername ==
    \E username \in SurrealUsernames :
        SurrealApply("WithUsername", "SURREAL_USER", username)

SurrealWithPassword ==
    \E password \in SurrealPasswords :
        SurrealApply("WithPassword", "SURREAL_PASS", password)

WithAuthentication == SurrealApply("WithAuthentication", "SURREAL_AUTH", "true")

WithStrictMode == SurrealApply("WithStrictMode", "SURREAL_STRICT", "true")

WithAllowAllCaps == SurrealApply("WithAllowAllCaps", "SURREAL_CAPS_ALLOW_ALL", "false")

\* testcontainers.New and the return
SurrealLaunch ==
    /\ spc = "customize"
    /\ spc' = "done"
    /\ \E r \in {"container", "error"} : sresult' = r
    /\ UNCHANGED <<senv, sapplied>>

\* --------------------------------------------------------------------- neo4j
AUTH       == <<"A","U","T","H">>
NEO4J_     == <<"N","E","O","4","J","_">>
NEO4J_AUTH == <<"N","E","O","4","J","_","A","U","T","H">>
NEO4JLABS_PLUGINS ==
    <<"N","E","O","4","J","L","A","B","S","_","P","L","U","G","I","N","S">>
NEO4J_ACCEPT_LICENSE_AGREEMENT ==
    <<"N","E","O","4","J","_","A","C","C","E","P","T","_","L","I","C","E","N","S","E",
      "_","A","G","R","E","E","M","E","N","T">>
Apoc  == <<"a","p","o","c">>
Bloom == <<"b","l","o","o","m">>

\* strings.ReplaceAll for a one-character pattern
RECURSIVE ReplaceAll(_, _, _)
ReplaceAll(s, old, new) ==
    IF s = <<>> THEN <<>>
    ELSE (IF Head(s) = old THEN new ELSE <<Head(s)>>) \o ReplaceAll(Tail(s), old, new)

formatNeo4jConfig(name) ==
    LET result == ReplaceAll(ReplaceAll(name, "_", <<"_", "_">>), ".", <<"_">>)
    IN  NEO4J_ \o result

\* mutant of addSetting: the guard compares the normalised key with "AUTH"
addSettingNormalizedGuard(st, logger, key, newVal) ==
    LET normalizedKey == formatNeo4jConfig(key)
        found == normalizedKey \in DOMAIN st.env
        call(after, outcome) ==
            [key |-> key, normalizedKey |-> normalizedKey, before |-> st.env,
             after |-> after, outcome |-> outcome]
    IN  IF found /\ normalizedKey = AUTH
        THEN [st EXCEPT !.status = "error",
                        !.calls = Append(st.calls, call(st.env, "error"))]
        ELSE IF found /\ ~logger
             THEN [st EXCEPT !.status = "panic",
                             !.calls = Append(st.calls, call(st.env, "panic"))]
             ELSE LET env2 == SetEnv(st.env, normalizedKey, newVal)
                  IN  [env |-> env2,
                       logs |-> IF found THEN st.logs + 1 ELSE st.logs,
                       status |-> "ok",
                       calls |-> Append(st.calls, call(env2, "ok"))]

\* st is [env, logs, status, calls]: the environment, the lines printed so far,
\* the outcome of the option so far and the record of its addSetting calls
addSetting(st, logger, key, newVal) ==
    LET normalizedKey == formatNeo4jConfig(key)
        found == normalizedKey \in DOMAIN st.env
        call(after, outcome) ==
            [key |-> key, normalizedKey |-> normalizedKey, before |-> st.env,
             after |-> after, outcome |-> outcome]
    IN  IF found /\ key = AUTH
        THEN [st EXCEPT !.status = "error",
                        !.calls = Append(st.calls, call(st.env, "error"))]
        ELSE IF found /\ ~logger
             THEN [st EXCEPT !.status = "panic",   \* Printf on a nil Logger
                             !.calls = Append(st.calls, call(st.env, "panic"))]
             ELSE LET env2 == SetEnv(st.env, normalizedKey, newVal)
                  IN  [env |-> env2,
                       logs |-> IF found THEN st.logs + 1 ELSE st.logs,
                       status |-> "ok",
                       calls |-> Append(st.calls, call(env2, "ok"))]

\* the loop of WithNeo4jSettings over the map, in the iteration order ord
RECURSIVE addSettings(_, _, _, _)
addSettings(st, logger, settings, ord) ==
    IF ord = <<>> THEN st
    ELSE LET st2 == addSetting(st, logger, Head(ord), settings[Head(ord)])
         IN  IF st2.status # "ok" THEN st2
             ELSE addSettings(st2, logger, settings, Tail(ord))

\* fmt.Sprintf(`["%s"]`, strings.Join(rawPluginValues, `","`))
RECURSIVE JoinPlugins(_)
JoinPlugins(plugins) ==
    IF Len(plugins) = 1 THEN plugins[1]
    ELSE plugins[1] \o <<"\"", ",", "\"">> \o JoinPlugins(Tail(plugins))

\* the orders in which a map with key set S can be iterated
RECURSIVE Orders(_)
Orders(S) ==
    IF S = {} THEN {<<>>}
    ELSE UNION {{<<k>> \o o : o \in Orders(S \ {k})} : k \in S}

\* ---------------------------------------------------------------- neo4j inputs
AdminPasswords == {<<>>, <<"p">>}
SettingKeys ==
    {AUTH, <<"a">>, <<"a",".","b">>, <<"a","_","b">>, <<"_",".">>, <<".","_">>,
     <<"A",".","U","T","H">>, <<"a","u","t","h">>}
SettingValues == {<<"x">>, <<"y">>}
MapKeys == {AUTH, <<"a">>, <<"a",".","b">>}
SettingMaps == UNION {[S -> SettingValues] : S \in SUBSET MapKeys}
PluginLists == {<<>>, <<Apoc>>, <<Apoc, Bloom>>}
KeyAlphabet == {"A", "U", "T", "H", "_", "."}
ProbeKeys == SeqsUpTo(KeyAlphabet, MaxKeyLen)

\* --------------------------------------------------------------- neo4j actions
NeoInit ==
    /\ nenv \in {<<>>, SetEnv(<<>>, NEO4J_AUTH, <<"n","o","n","e">>)}
    /\ nlogger \in BOOLEAN
    /\ nlogs = 0
    /\ nstatus = "ok"
    /\ ncalls = <<>>
    /\ nprev = nenv
    /\ nlast = "none"
    /\ nOptsNeo = 0

NeoCanApply == nstatus # "panic" /\ nOptsNeo < MaxNeoOpts

\* an option that only assigns environment variables and returns nil
NeoSetEnv(name, k, v) ==
    /\ NeoCanApply
    /\ nprev' = nenv
    /\ nenv' = SetEnv(nenv, k, v)
    /\ nstatus' = "ok"
    /\ ncalls' = <<>>
    /\ nlast' = name
    /\ nOptsNeo' = nOptsNeo + 1
    /\ UNCHANGED <<nlogger, nlogs>>

WithAdminPassword ==
    \E adminPassword \in AdminPasswords :
        LET pwd == IF adminPassword # <<>>
                   THEN <<"n","e","o","4","j","/">> \o adminPassword
                   ELSE <<"n","o","n","e">>
        IN  NeoSetEnv("WithAdminPassword", NEO4J_AUTH, pwd)

WithoutAuthentication ==
    NeoSetEnv("WithoutAuthentication", NEO4J_AUTH, <<"n","o","n","e">>)

WithLabsPlugin ==
    \E plugins \in PluginLists :
        IF Len(plugins) > 0
        THEN NeoSetEnv("WithLabsPlugin", NEO4JLABS_PLUGINS,
                       <<"[", "\"">> \o JoinPlugins(plugins) \o <<"\"", "]">>)
        ELSE /\ NeoCanApply
             /\ nprev' = nenv
             /\ nstatus' = "ok"
             /\ ncalls' = <<>>
             /\ nlast' = "WithLabsPlugin"
             /\ nOptsNeo' = nOptsNeo + 1
             /\ UNCHANGED <<nenv, nlogger, nlogs>>

WithAcceptCommercialLicenseAgreement ==
    NeoSetEnv("WithAcceptCommercialLicenseAgreement",
              NEO4J_ACCEPT_LICENSE_AGREEMENT, <<"y","e","s">>)

WithAcceptEvaluationLicenseAgreement ==
    NeoSetEnv("WithAcceptEvaluationLicenseAgreement",
              NEO4J_ACCEPT_LICENSE_AGREEMENT, <<"e","v","a","l">>)

NeoFinish(name, st) ==
    /\ nprev' = nenv
    /\ nenv' = st.env
    /\ nlogs' = st.logs
    /\ nstatus' = st.status
    /\ ncalls' = st.calls
    /\ nlast' = name
    /\ nOptsNeo' = nOptsNeo + 1
    /\ UNCHANGED nlogger

NeoStart == [env |-> nenv, logs |-> nlogs, status |-> "ok", calls |-> <<>>]

WithNeo4jSetting ==
    /\ NeoCanApply
    /\ \E key \in SettingKeys, value \in SettingValues :
           NeoFinish("WithNeo4jSetting", addSetting(NeoStart, nlogger, key, value))

WithNeo4jSettings ==
    /\ NeoCanApply
    /\ \E settings \in SettingMaps :
           \E ord \in Orders(DOMAIN settings) :
               NeoFinish("WithNeo4jSettings",
                         addSettings(NeoStart, nlogger, settings, ord))

validate ==
    /\ NeoCanApply
    /\ nprev' = nenv
    /\ nstatus' = IF nlogger THEN "ok" ELSE "error"
    /\ ncalls' = <<>>
    /\ nlast' = "validate"
    /\ nOptsNeo' = nOptsNeo + 1
    /\ UNCHANGED <<nenv, nlogger, nlogs>>

\* the state of a module no call has been made into
InfluxIdle  == InfluxInit
SurrealIdle == SurrealInit
NeoIdle ==
    /\ nenv = <<>>
    /\ nlogger = TRUE
    /\ nlogs = 0
    /\ nstatus = "ok"
    /\ ncalls = <<>>
    /\ nprev = <<>>
    /\ nlast = "none"
    /\ nOptsNeo = 0

\* ------------------------------------------------------------ specifications
\* influxdb RunContainer
Init == InfluxInit /\ SurrealIdle /\ NeoIdle

Next ==
    \/ (WithUsername /\ UNCHANGED <<surrealVars, neoVars>>)
    \/ (WithPassword /\ UNCHANGED <<surrealVars, neoVars>>)
    \/ (WithDatabase /\ UNCHANGED <<surrealVars, neoVars>>)
    \/ (WithConfigFile /\ UNCHANGED <<surrealVars, neoVars>>)
    \/ (WithInitDb /\ UNCHANGED <<surrealVars, neoVars>>)
    \/ (CustomizeImage /\ UNCHANGED <<surrealVars, neoVars>>)
    \/ (CustomizeWaitingFor /\ UNCHANGED <<surrealVars, neoVars>>)
    \/ (CustomizeFiles /\ UNCHANGED <<surrealVars, neoVars>>)
    \/ (SelectReadiness /\ UNCHANGED <<surrealVars, neoVars>>)
    \/ (Launch /\ UNCHANGED <<surrealVars, neoVars>>)

Spec == Init /\ [][Next]_vars

\* influxdb RunContainer, with the selector applied again before the launch
NextReapply ==
    \/ Next
    \/ (SelectAgain /\ UNCHANGED <<surrealVars, neoVars>>)

SpecReapply == Init /\ [][NextReapply]_vars

\* surrealdb RunContainer
InitSurreal == InfluxIdle /\ SurrealInit /\ NeoIdle

NextSurreal ==
    \/ (SurrealWithUsername /\ UNCHANGED <<influxVars, neoVars>>)
    \/ (SurrealWithPassword /\ UNCHANGED <<influxVars, neoVars>>)
    \/ (WithAuthentication /\ UNCHANGED <<influxVars, neoVars>>)
    \/ (WithStrictMode /\ UNCHANGED <<influxVars, neoVars>>)
    \/ (WithAllowAllCaps /\ UNCHANGED <<influxVars, neoVars>>)
    \/ (SurrealLaunch /\ UNCHANGED <<influxVars, neoVars>>)

SpecSurreal == InitSurreal /\ [][NextSurreal]_vars

\* the neo4j options applied to a request
InitNeo == InfluxIdle /\ SurrealIdle /\ NeoInit

NextNeo ==
    \/ (WithAdminPassword /\ UNCHANGED <<influxVars, surrealVars>>)
    \/ (WithoutAuthentication /\ UNCHANGED <<influxVars, surrealVars>>)
    \/ (WithLabsPlugin /\ UNCHANGED <<influxVars, surrealVars>>)
    \/ (WithAcceptCommercialLicenseAgreement /\ UNCHANGED <<influxVars, surrealVars>>)
    \/ (WithAcceptEvaluationLicenseAgreement /\ UNCHANGED <<influxVars, surrealVars>>)
    \/ (WithNeo4jSetting /\ UNCHANGED <<influxVars, surrealVars>>)
    \/ (WithNeo4jSettings /\ UNCHANGED <<influxVars, surrealVars>>)
    \/ (validate /\ UNCHANGED <<influxVars, surrealVars>>)

SpecNeo == InitNeo /\ [][NextNeo]_vars

\* ---------------------------------------------------------------- properties
\* the conditions the properties are stated in, written without the operators
\* of the selector
HasInitScriptMount(files) ==
    \E i \in 1..Len(files) :
        /\ files[i].ContainerFilePath = <<"/">>
        /\ \E n \in 0..Len(files[i].HostFilePath) :
               files[i].HostFilePath = SubSeq(files[i].HostFilePath, 1, n) \o initDbDir

HasColon(image) == \E i \in 1..Len(image) : image[i] = ":"

\* the text after the last ':' of an image reference that has one
TagOf(image) ==
    CHOOSE t \in {SubSeq(image, i + 1, Len(image)) : i \in 1..Len(image)} :
        /\ ~HasColon(t)
        /\ image[Len(image) - Len(t)] = ":"

NewerTag(image) ==
    /\ HasColon(image)
    /\ \/ TagOf(image) = latest
       \/ TagOf(image) # <<>> /\ TagOf(image)[1] = "2"

SelectorRan == runs = 1

\* C1: with an init-script mount in the file list, whatever the image reference,
\* the strategy handed to launch is the conjunction of the strategy the request
\* carried before the selector, the init-process log, the shutdown log and the
\* opened-shard log, in this order; the tag branch is not applied.
InitScriptConjunction ==
    (SelectorRan /\ HasInitScriptMount(pre.Files)) =>
        /\ pc # "panic"
        /\ req.WaitingFor.kind = "ForAll"
        /\ Len(req.WaitingFor.strategies) = 4
        /\ req.WaitingFor.strategies =
               <<pre.WaitingFor, ForLog("influxdb init process in progress..."),
                 ForLog("Server shutdown completed"), ForLog("Opened shard")>>

InitScriptConjunctionWitness ==
    /\ pc = "launch"
    /\ HasInitScriptMount(pre.Files)
    /\ NewerTag(pre.Image)
    /\ req.WaitingFor.kind = "ForAll"

\* C2: an image reference ending in ':' and no init-script mount does not crash
\* the selector: the strategy stays the one the request carried and the launch
\* call is reached.
EmptyTagKeepsDefault ==
    (SelectorRan /\ ~HasInitScriptMount(pre.Files)
       /\ HasColon(pre.Image) /\ TagOf(pre.Image) = <<>>) =>
        /\ pc \in {"launch", "done"}
        /\ req.WaitingFor = pre.WaitingFor

\* C3: without an init-script mount, a tag that is "latest" or begins with '2'
\* makes the strategy handed to launch the regular-expression match of the
\* tcp-listener line, whatever the request carried before.
NewerTagRegexp ==
    (SelectorRan /\ ~HasInitScriptMount(pre.Files) /\ NewerTag(pre.Image)) =>
        /\ pc # "panic"
        /\ req.WaitingFor =
               [kind |-> "ForLog",
                arg |-> "Listening log_id=[0-9a-zA-Z_~]+ service=tcp-listener transport=http",
                regexp |-> TRUE, strategies |-> <<>>]

NewerTagRegexpWitness ==
    /\ pc = "launch"
    /\ ~HasInitScriptMount(pre.Files)
    /\ NewerTag(pre.Image)
    /\ TagOf(pre.Image) # latest
    /\ pre.WaitingFor \in CallerStrategies
    /\ req.WaitingFor.regexp

\* C4: without an init-script mount, a non-empty tag that is neither "latest"
\* nor begins with '2' leaves the strategy as the request carried it, which is
\* the port check on 8086/tcp when no option was applied.
OlderTagUnchanged ==
    (SelectorRan /\ ~HasInitScriptMount(pre.Files) /\ HasColon(pre.Image)
       /\ TagOf(pre.Image) # <<>> /\ ~NewerTag(pre.Image)) =>
        /\ pc # "panic"
        /\ req.WaitingFor = pre.WaitingFor
        /\ nOpts = 0 => req.WaitingFor = ForListeningPort("8086/tcp")

OlderTagUnchangedWitness ==
    /\ pc = "launch"
    /\ ~HasInitScriptMount(pre.Files)
    /\ pre.Image = <<"i","n","f","l","u","x","d","b",":","1","2">>
    /\ req.WaitingFor = pre.WaitingFor
    /\ pre.WaitingFor \in CallerStrategies

\* C5: without an init-script mount, an image reference with no ':' makes the
\* strategy handed to launch the exact log match "Listening for signals".
NoColonListeningForSignals ==
    (SelectorRan /\ ~HasInitScriptMount(pre.Files) /\ ~HasColon(pre.Image)) =>
        /\ pc # "panic"
        /\ req.WaitingFor = [kind |-> "ForLog", arg |-> "Listening for signals",
                             regexp |-> FALSE, strategies |-> <<>>]

NoColonListeningForSignalsWitness ==
    /\ pc = "launch"
    /\ ~HasInitScriptMount(pre.Files)
    /\ ~HasColon(pre.Image)
    /\ pre.WaitingFor \in CallerStrategies
    /\ req.WaitingFor.arg = "Listening for signals"

\* C6: the selector changes neither the environment mapping nor the file list:
\* both are after the selector what they were after the last option.
SelectorFrame ==
    [][runs' # runs =>
          /\ req'.Env = req.Env
          /\ req'.Files = req.Files]_vars

SelectorFrameWitness ==
    /\ pc = "launch"
    /\ HasInitScriptMount(req.Files)
    /\ "INFLUXDB_USER" \in DOMAIN req.Env
    /\ req.Env = pre.Env
    /\ req.Files = pre.Files

\* C7 as stated: every run of the selector assigns the waiting-strategy slot
\* exactly once.
WrittenExactlyOnce == SelectorRan => writes = 1

\* C7 amended: a run of the selector assigns the slot at most once: once when
\* there is an init-script mount, when the image has no ':' and when the tag is
\* "latest" or begins with '2'; not at all for any other tag.
WrittenAtMostOnce ==
    SelectorRan =>
        writes = IF \/ HasInitScriptMount(pre.Files)
                    \/ ~HasColon(pre.Image)
                    \/ NewerTag(pre.Image)
                 THEN 1 ELSE 0

WrittenAtMostOnceWitness ==
    /\ pc = "launch"
    /\ writes = 1
    /\ Cardinality({i \in 1..Len(pre.Files) : HasInitScriptMount(<<pre.Files[i]>>)}) = 2

\* C8: applied again to a request with an init-script mount that carries the
\* four-element conjunction, the selector yields a four-element conjunction whose
\* first element is the previous conjunction and whose other elements are the
\* same three log matches; it differs from the result of one application.
ReapplyNests ==
    (runs >= 2 /\ HasInitScriptMount(pre.Files)) =>
        /\ pre.WaitingFor.kind = "ForAll"
        /\ Len(pre.WaitingFor.strategies) = 4
        /\ req.WaitingFor.kind = "ForAll"
        /\ req.WaitingFor.strategies =
               <<pre.WaitingFor, ForLog("influxdb init process in progress..."),
                 ForLog("Server shutdown completed"), ForLog("Opened shard")>>
        /\ SubSeq(req.WaitingFor.strategies, 2, 4) = SubSeq(pre.WaitingFor.strategies, 2, 4)
        /\ req.WaitingFor # pre.WaitingFor

ReapplyNestsWitness ==
    /\ runs = 2
    /\ HasInitScriptMount(pre.Files)
    /\ req.WaitingFor.strategies[1].kind = "ForAll"
    /\ req.WaitingFor.strategies[1].strategies[1] = ForListeningPort("8086/tcp")

\* C9: once WithAllowAllCaps has been applied, SURREAL_CAPS_ALLOW_ALL holds
\* "true".
AllowAllCapsEnables ==
    (\E i \in 1..Len(sapplied) : sapplied[i] = "WithAllowAllCaps") =>
        senv["SURREAL_CAPS_ALLOW_ALL"] = "true"

\* formatNeo4jConfig sends "AUTH", and no other key, to NEO4J_AUTH
OnlyAuthNormalizesToAuth ==
    \A k \in ProbeKeys \cup SettingKeys :
        formatNeo4jConfig(k) = NEO4J_AUTH <=> k = AUTH

\* C10: a setting never overwrites AUTH: an option that adds settings leaves
\* the value of NEO4J_AUTH as it was when it is present; an addSetting call with
\* key "AUTH" then returns an error and leaves the environment unchanged; no key
\* other than "AUTH" is normalised to NEO4J_AUTH.
AuthNotOverwritten ==
    /\ OnlyAuthNormalizesToAuth
    /\ (nlast \in {"WithNeo4jSetting", "WithNeo4jSettings"}
          /\ NEO4J_AUTH \in DOMAIN nprev) =>
           /\ NEO4J_AUTH \in DOMAIN nenv
           /\ nenv[NEO4J_AUTH] = nprev[NEO4J_AUTH]
    /\ \A i \in 1..Len(ncalls) :
           /\ NEO4J_AUTH \in DOMAIN ncalls[i].before =>
                  /\ NEO4J_AUTH \in DOMAIN ncalls[i].after
                  /\ ncalls[i].after[NEO4J_AUTH] = ncalls[i].before[NEO4J_AUTH]
           /\ (ncalls[i].key = AUTH /\ NEO4J_AUTH \in DOMAIN ncalls[i].before) =>
                  /\ ncalls[i].outcome = "error"
                  /\ ncalls[i].after = ncalls[i].before
           /\ ncalls[i].normalizedKey = NEO4J_AUTH => ncalls[i].key = AUTH

AuthNotOverwrittenWitness ==
    /\ nlast = "WithNeo4jSettings"
    /\ Len(ncalls) = 2
    /\ ncalls[2].key = AUTH
    /\ ncalls[2].outcome = "error"
    /\ nenv # nprev
    /\ nenv[NEO4J_AUTH] = <<"n","e","o","4","j","/","p">>
====
